---- MODULE Spec2Model ----
(***************************************************************************)
(* Model of the dividend simulator in src/app.py: the month-by-month        *)
(* forward projection (tab 1, lines 199-293) and the goal calculation      *)
(* (tab 2, lines 304-356).                                                  *)
(*                                                                          *)
(* Numbers.  The program computes in IEEE doubles (numpy.float64 for every  *)
(* value derived from the market data, Python int for the amounts typed in *)
(* the widgets).  A double is modelled as an exact rational n/d or one of   *)
(* the special values inf, -inf, nan.  The input sets below are chosen so   *)
(* that every finite value the program computes is a dyadic rational whose  *)
(* numerator fits the mantissa, i.e. the double arithmetic is exact on     *)
(* them.  The value "ovf" marks a result whose numerator or denominator    *)
(* would exceed MaxMagnitude; an action whose results contain it is not    *)
(* taken (the run is followed only as far as the model integers reach).    *)
(***************************************************************************)
EXTENDS Integers, Sequences, FiniteSets, TLC

\* ---------------------------------------------------------------- bounds
MaxYears == 1
MaxMagnitude == 1000000000

\* ---------------------------------------------------- program constants
MinYears == 1
ManWon == 10000
MonthsPerYear == 12
Percent == 100

\* ------------------------------------------------------- rational numbers
Abs(a) == IF a < 0 THEN 0 - a ELSE a

Sign(a) == IF a < 0 THEN 0 - 1 ELSE IF a = 0 THEN 0 ELSE 1

RECURSIVE GCD(_, _)
GCD(a, b) == IF b = 0 THEN a ELSE GCD(b, a % b)

Fin(a, b) == [k |-> "fin", n |-> a, d |-> b]

Inf == [k |-> "inf", n |-> 0, d |-> 1]

NInf == [k |-> "ninf", n |-> 0, d |-> 1]

NaN == [k |-> "nan", n |-> 0, d |-> 1]

Ovf == [k |-> "ovf", n |-> 0, d |-> 1]

Zero == Fin(0, 1)

One == Fin(1, 1)

FromInt(a) == Fin(a, 1)

InRange(a) == Abs(a) <= MaxMagnitude

MulOk(a, b) == b = 0 \/ Abs(a) <= MaxMagnitude \div Abs(b)

\* a/b in lowest terms, b > 0
Norm(a, b) ==
  LET g == GCD(Abs(a), b)
  IN  IF InRange(a) /\ InRange(b) THEN Fin(a \div g, b \div g) ELSE Ovf

IsFin(x) == x.k = "fin"

IsOvf(x) == x.k = "ovf"

IsNaN(x) == x.k = "nan"

IsInfinite(x) == x.k \in {"inf", "ninf"}

\* sign of a value that is not nan: -1, 0, 1
SignOf(x) == IF x.k = "inf" THEN 1 ELSE IF x.k = "ninf" THEN 0 - 1 ELSE Sign(x.n)

RNeg(x) ==
  CASE x.k = "fin" -> Fin(0 - x.n, x.d)
    [] x.k = "inf" -> NInf
    [] x.k = "ninf" -> Inf
    [] OTHER -> x

RAdd(x, y) ==
  IF IsOvf(x) \/ IsOvf(y) THEN Ovf
  ELSE IF IsNaN(x) \/ IsNaN(y) THEN NaN
  ELSE IF IsInfinite(x) /\ IsInfinite(y) THEN (IF x.k = y.k THEN x ELSE NaN)
  ELSE IF IsInfinite(x) THEN x
  ELSE IF IsInfinite(y) THEN y
  ELSE LET g == GCD(x.d, y.d)
           fx == y.d \div g
           fy == x.d \div g
       IN  IF MulOk(x.n, fx) /\ MulOk(y.n, fy) /\ MulOk(x.d, fx)
           THEN Norm(x.n * fx + y.n * fy, x.d * fx)
           ELSE Ovf

RSub(x, y) == RAdd(x, RNeg(y))

RMul(x, y) ==
  IF IsOvf(x) \/ IsOvf(y) THEN Ovf
  ELSE IF IsNaN(x) \/ IsNaN(y) THEN NaN
  ELSE IF IsInfinite(x) \/ IsInfinite(y)
       THEN (IF SignOf(x) * SignOf(y) = 0 THEN NaN
             ELSE IF SignOf(x) * SignOf(y) > 0 THEN Inf ELSE NInf)
  ELSE LET g1 == GCD(Abs(x.n), y.d)
           g2 == GCD(Abs(y.n), x.d)
           a == x.n \div g1
           b == y.n \div g2
           c == x.d \div g2
           e == y.d \div g1
       IN  IF MulOk(a, b) /\ MulOk(c, e) THEN Norm(a * b, c * e) ELSE Ovf

\* numpy.float64 true division: a zero divisor gives inf, -inf or nan
RDiv(x, y) ==
  IF IsOvf(x) \/ IsOvf(y) THEN Ovf
  ELSE IF IsNaN(x) \/ IsNaN(y) THEN NaN
  ELSE IF IsInfinite(y) THEN (IF IsInfinite(x) THEN NaN ELSE Zero)
  ELSE IF y.n = 0
       THEN (IF SignOf(x) = 0 THEN NaN ELSE IF SignOf(x) > 0 THEN Inf ELSE NInf)
  ELSE RMul(x, Fin(Sign(y.n) * y.d, Abs(y.n)))

\* x <= y on doubles: every comparison with nan is false
RLe(x, y) ==
  IF IsNaN(x) \/ IsNaN(y) THEN FALSE
  ELSE IF x.k = "ninf" \/ y.k = "inf" THEN TRUE
  ELSE IF x.k = "inf" \/ y.k = "ninf" THEN FALSE
  ELSE LET df == RAdd(y, RNeg(x)) IN df.k = "fin" /\ df.n >= 0

RGe(x, y) == RLe(y, x)

REq(x, y) == RLe(x, y) /\ RLe(y, x)

RECURSIVE RPow(_, _)
RPow(x, e) == IF e = 0 THEN One ELSE RMul(x, RPow(x, e - 1))

\* int(x): truncation toward zero; raises on inf (OverflowError) and nan (ValueError)
ToInt(x) ==
  CASE x.k = "fin" -> [ok |-> TRUE, v |-> Sign(x.n) * (Abs(x.n) \div x.d), err |-> "none"]
    [] x.k = "nan" -> [ok |-> FALSE, v |-> 0, err |-> "ValueError"]
    [] OTHER -> [ok |-> FALSE, v |-> 0, err |-> "OverflowError"]

\* ------------------------------------------------------------ input sets
\* price_krw = price_usd * rate (line 131); 0 when the history is empty
PriceChoices == {0, 1}

\* current_annual_dps = annual_div_usd * rate (lines 137, 140, 312), in won
AnnualDivChoices == {0, 12}

\* tax_rate and real_change_rate are unbounded number inputs, in percent
TaxChoices == {0, 100, 200}

GrowthChoices == {0 - 100, 0, 100}

\* widget values in units of 10,000 won
InitialChoices == {0, 1}

ContribChoices == {0 - 1, 0, 1}

TargetChoices == {0, 1, 4095}

FreqOptions == {"weekly", "monthly", "quarterly", "semiannual", "annual"}

\* ------------------------------------------------------------------ state
VARIABLES
  price_krw,            \* starting unit price
  price_is_np,          \* price_krw is a numpy.float64 (FALSE: a Python float)
  annual_div_krw,       \* annual dividend per share
  div_freq_option,      \* selected payout frequency
  years, tax_rate, real_change_rate,
  pc,                   \* "idle", "loop", "report", "done", "error"
  err,                  \* exception reported by the handler of line 358
  initial_invest_krw, monthly_contrib_krw,
  i,                    \* loop variable of line 212
  current_shares, current_price, total_invested, accumulated_div,
  data_asset, data_invested, break_even_month,
  hist_gross,           \* gross_div of every simulated month (line 221-231)
  hist_acc,             \* accumulated_div after every simulated month (line 234)
  payouts,              \* number of months in which the payout branch ran
  plan                  \* outcome of the goal calculation

inputs == <<price_krw, price_is_np, annual_div_krw, div_freq_option, years,
            tax_rate, real_change_rate>>

sim == <<initial_invest_krw, monthly_contrib_krw, i, current_shares,
         current_price, total_invested, accumulated_div, data_asset,
         data_invested, break_even_month, hist_gross, hist_acc, payouts>>

vars == <<inputs, pc, err, sim, plan>>

\* break_even_month = None
None == 0

NoPlan ==
  [status |-> "none", target |-> 0, future_dps |-> Zero, needed_shares |-> Zero,
   needed_asset_future |-> Zero, monthly_savings_needed |-> Zero]

\* ---------------------------------------------------------------- freq_map
FreqCount(f) ==
  CASE f = "weekly" -> 52
    [] f = "monthly" -> 12
    [] f = "quarterly" -> 4
    [] f = "semiannual" -> 2
    [] f = "annual" -> 1

FreqInterval(f) ==
  CASE f = "weekly" -> 1
    [] f = "monthly" -> 1
    [] f = "quarterly" -> 3
    [] f = "semiannual" -> 6
    [] f = "annual" -> 12

is_weekly_mode == FreqCount(div_freq_option) = 52

DivPerPayoutWrong == RDiv(annual_div_krw, FromInt(FreqCount(div_freq_option)))

div_per_payout_krw ==
  IF FreqCount(div_freq_option) = 52
  THEN RDiv(annual_div_krw, FromInt(12))
  ELSE RDiv(annual_div_krw, FromInt(FreqCount(div_freq_option)))

\* 1 - tax_rate/100
AfterTax == RSub(One, RDiv(FromInt(tax_rate), FromInt(Percent)))

\* 1 + real_change_rate/100
GrowthFactor == RAdd(One, RDiv(FromInt(real_change_rate), FromInt(Percent)))

months == years * MonthsPerYear

\* ------------------------------------------------------- forward projection
LastMonthShort == months - 1

\* last value of range(months + 1)
LastMonth == months

EmitsAlways(m) == TRUE

\* the payout branch of lines 223-231 runs in month m
Emits(m) == is_weekly_mode \/ m % FreqInterval(div_freq_option) = 0

GrossDiv(m, shares) == IF Emits(m) THEN RMul(shares, div_per_payout_krw) ELSE Zero

NetDiv(gross) == RMul(gross, AfterTax)

BreakEvenOverwrite(bem, m, acc, total) ==
  IF RGe(acc, FromInt(total)) THEN m ELSE bem

BreakEven(bem, m, acc, total) ==
  IF bem = None /\ RGe(acc, FromInt(total)) THEN m ELSE bem

GrowPrice(price) == RMul(price, GrowthFactor)

PurchasePriceStale(before, after) == before

\* line 245 divides by current_price as assigned on line 241
PurchasePrice(before, after) == after

NewSharesClamped(buy, price) ==
  IF IsFin(price) /\ price.n = 0 THEN Zero ELSE RDiv(buy, price)

NewShares(buy, price) == RDiv(buy, price)

NextInvestedWrong(total, contrib) == total - contrib

NextInvested(total, contrib) == total + contrib

TypeOK ==
  /\ pc \in {"idle", "loop", "report", "done", "error"}
  /\ years \in MinYears..(MaxYears + 1)
  /\ i \in 0..months
  /\ break_even_month \in 0..months

Init ==
  /\ price_krw \in {FromInt(p) : p \in PriceChoices}
  /\ price_is_np \in BOOLEAN
  /\ (price_krw # Zero => price_is_np)
  /\ annual_div_krw \in {FromInt(a) : a \in AnnualDivChoices}
  /\ div_freq_option \in FreqOptions
  /\ years \in MinYears..MaxYears
  /\ tax_rate \in TaxChoices
  /\ real_change_rate \in GrowthChoices
  /\ pc = "idle"
  /\ err = "none"
  /\ initial_invest_krw = 0
  /\ monthly_contrib_krw = 0
  /\ i = 0
  /\ current_shares = Zero
  /\ current_price = Zero
  /\ total_invested = 0
  /\ accumulated_div = Zero
  /\ data_asset = << >>
  /\ data_invested = << >>
  /\ break_even_month = None
  /\ hist_gross = << >>
  /\ hist_acc = << >>
  /\ payouts = 0
  /\ plan = NoPlan

\* lines 199-218: the button is pressed; setup and month 0
Start(initial_invest_input, monthly_contrib_input) ==
  /\ pc = "idle"
  /\ LET init == initial_invest_input * ManWon
         contrib == monthly_contrib_input * ManWon
         shares == RDiv(FromInt(init), price_krw)
         asset == ToInt(RMul(shares, price_krw))
     IN  /\ initial_invest_krw' = init
         /\ monthly_contrib_krw' = contrib
         /\ IF ~price_is_np /\ price_krw = Zero
            THEN \* Python float division: ZeroDivisionError on line 201
                 /\ pc' = "error"
                 /\ err' = "ZeroDivisionError"
                 /\ UNCHANGED <<i, current_shares, current_price, total_invested,
                                accumulated_div, data_asset, data_invested,
                                break_even_month, hist_gross, hist_acc, payouts>>
            ELSE /\ current_shares' = shares
                 /\ current_price' = price_krw
                 /\ total_invested' = init
                 /\ accumulated_div' = Zero
                 /\ break_even_month' = None
                 /\ i' = 0
                 /\ UNCHANGED <<hist_gross, hist_acc, payouts>>
                 /\ IF asset.ok
                    THEN /\ data_asset' = <<asset.v>>
                         /\ data_invested' = <<init>>
                         /\ pc' = "loop"
                         /\ err' = "none"
                    ELSE /\ data_asset' = << >>
                         /\ data_invested' = << >>
                         /\ pc' = "error"
                         /\ err' = asset.err
  /\ UNCHANGED <<inputs, plan>>

\* lines 220-252: one iteration of the loop, month m = i + 1
Step ==
  /\ pc = "loop"
  /\ i < LastMonth
  /\ LET m == i + 1
         gross_div == GrossDiv(m, current_shares)
         net_div == NetDiv(gross_div)
         acc == RAdd(accumulated_div, net_div)
         price == GrowPrice(current_price)
         buy_amount == RAdd(net_div, FromInt(monthly_contrib_krw))
         new_shares == NewShares(buy_amount, PurchasePrice(current_price, price))
         shares == RAdd(current_shares, new_shares)
         value == RMul(shares, price)
         asset == ToInt(value)
     IN  /\ ~IsOvf(gross_div) /\ ~IsOvf(net_div) /\ ~IsOvf(acc) /\ ~IsOvf(price)
         /\ ~IsOvf(buy_amount) /\ ~IsOvf(new_shares) /\ ~IsOvf(shares)
         /\ ~IsOvf(value) /\ ~IsOvf(RSub(acc, FromInt(total_invested)))
         /\ i' = m
         /\ hist_gross' = Append(hist_gross, gross_div)
         /\ hist_acc' = Append(hist_acc, acc)
         /\ payouts' = IF Emits(m) THEN payouts + 1 ELSE payouts
         /\ accumulated_div' = acc
         /\ break_even_month' = BreakEven(break_even_month, m, acc, total_invested)
         /\ current_price' = price
         /\ current_shares' = shares
         /\ total_invested' = NextInvested(total_invested, monthly_contrib_krw)
         /\ IF asset.ok
            THEN /\ data_asset' = Append(data_asset, asset.v)
                 /\ data_invested' = Append(data_invested, total_invested')
                 /\ pc' = IF m = LastMonth THEN "report" ELSE "loop"
                 /\ err' = "none"
            ELSE \* int() raises on line 249
                 /\ UNCHANGED <<data_asset, data_invested>>
                 /\ pc' = "error"
                 /\ err' = asset.err
  /\ UNCHANGED <<inputs, initial_invest_krw, monthly_contrib_krw, plan>>

\* lines 254-293: chart and result cards; roi divides two Python ints
Report ==
  /\ pc = "report"
  /\ LET final_invested == data_invested[Len(data_invested)]
     IN  IF final_invested = 0
         THEN pc' = "error" /\ err' = "ZeroDivisionError"
         ELSE pc' = "done" /\ err' = "none"
  /\ UNCHANGED <<inputs, sim, plan>>

\* --------------------------------------------------------- goal calculation
\* lines 327-328: (real_change_rate + monthly_yield_rate) / 100
total_monthly_return_rate ==
  LET monthly_yield_rate ==
        RMul(RDiv(RDiv(annual_div_krw, FromInt(12)), price_krw), FromInt(Percent))
  IN  RDiv(RAdd(FromInt(real_change_rate), monthly_yield_rate), FromInt(Percent))

\* lines 304-356: the goal button is pressed
SolveGoal(target_monthly_div_input) ==
  /\ pc = "idle"
  /\ plan.status = "none"
  /\ LET future_months == years * MonthsPerYear
         decay_factor == RPow(GrowthFactor, future_months)
         est_future_price == RMul(price_krw, decay_factor)
         est_future_annual_dps == RMul(annual_div_krw, decay_factor)
         target_annual_div_won == target_monthly_div_input * ManWon * 12
         needed_shares ==
           RDiv(FromInt(target_annual_div_won), RMul(est_future_annual_dps, AfterTax))
         needed_asset_future == RMul(needed_shares, est_future_price)
         r == total_monthly_return_rate
         monthly_savings_needed ==
           IF REq(r, Zero)
           THEN RDiv(needed_asset_future, FromInt(future_months))
           ELSE RDiv(RMul(needed_asset_future, r),
                     RSub(RPow(RAdd(One, r), future_months), One))
     IN  /\ ~IsOvf(est_future_price) /\ ~IsOvf(est_future_annual_dps)
         /\ IF RLe(est_future_annual_dps, Zero)
            THEN plan' = [status |-> "error", target |-> target_monthly_div_input,
                          future_dps |-> est_future_annual_dps,
                          needed_shares |-> Zero, needed_asset_future |-> Zero,
                          monthly_savings_needed |-> Zero]
            ELSE /\ ~IsOvf(needed_asset_future) /\ ~IsOvf(monthly_savings_needed)
                 /\ plan' = [status |-> "ok", target |-> target_monthly_div_input,
                             future_dps |-> est_future_annual_dps,
                             needed_shares |-> needed_shares,
                             needed_asset_future |-> needed_asset_future,
                             monthly_savings_needed |-> monthly_savings_needed]
  /\ UNCHANGED <<inputs, pc, err, sim>>

Next ==
  \/ \E a \in InitialChoices, c \in ContribChoices : Start(a, c)
  \/ Step
  \/ Report
  \/ \E t \in TargetChoices : SolveGoal(t)

Spec == Init /\ [][Next]_vars

\* ------------------------------------------------------------------ claims
RAbs(x) == IF SignOf(x) < 0 THEN RNeg(x) ELSE x

\* the break-even comparison of month k: accumulated net dividends including
\* month k against total_invested as recorded at the end of month k - 1
BreakEvenHolds(k) == RGe(hist_acc[k], FromInt(data_invested[k]))

\* C1: if a break-even month m is recorded, the accumulated net dividends of
\* month m are >= totalInvested as it stood at the start of month m, the
\* comparison is false in every month 1..m-1, and a recorded break-even month
\* is never changed by a later step.
Thm_C1 ==
  /\ [](break_even_month # None =>
          /\ break_even_month <= Len(hist_acc)
          /\ BreakEvenHolds(break_even_month)
          /\ \A k \in 1..(break_even_month - 1) : ~BreakEvenHolds(k))
  /\ [][break_even_month # None => break_even_month' = break_even_month]_vars

Wit_C1 ==
  /\ break_even_month >= 3
  /\ i > break_even_month
  /\ BreakEvenHolds(i)

\* C2: for the monthly, quarterly, semiannual and annual schedules with a
\* positive per-payout amount, the gross dividend of simulated month k is
\* non-zero only when k is a multiple of the interval; month 0 pays nothing.
Thm_C2 ==
  (~is_weekly_mode /\ SignOf(div_per_payout_krw) > 0) =>
     /\ \A k \in 1..Len(hist_gross) :
           hist_gross[k] # Zero => k % FreqInterval(div_freq_option) = 0
     /\ (pc = "loop" /\ i = 0 => accumulated_div = Zero /\ hist_gross = << >>)

Wit_C2 ==
  /\ div_freq_option = "quarterly"
  /\ Len(hist_gross) >= 7
  /\ hist_gross[3] # Zero
  /\ hist_gross[6] # Zero
  /\ hist_gross[7] = Zero

\* C3: in the goal calculation a future annual dividend per share <= 0 ends in
\* the reported error, and no input yields an infinite or negative number of
\* needed shares.
Claim_C3 ==
  plan.status # "none" =>
     /\ (RLe(plan.future_dps, Zero) => plan.status = "error")
     /\ (plan.status = "ok" =>
           IsFin(plan.needed_shares) /\ plan.needed_shares.n >= 0)

\* C4: with a starting unit price of 0 the projection fails before any month
\* is simulated and never holds a NaN or infinite share count or series value.
Claim_C4 ==
  price_krw = Zero =>
     /\ pc \in {"idle", "error"}
     /\ i = 0
     /\ IsFin(current_shares)
     /\ data_asset = << >>

\* C5: when the projection has run through its horizon, data_asset and
\* data_invested each hold horizonMonths + 1 entries; the two series always
\* have equal length.
Thm_C5 ==
  /\ Len(data_asset) = Len(data_invested)
  /\ (pc \in {"report", "done"} =>
        /\ Len(data_asset) = years * 12 + 1
        /\ Len(data_invested) = years * 12 + 1)

Wit_C5 == pc = "done" /\ Len(data_asset) = years * 12 + 1

\* C6: when the projection is run with no initial capital and the monthly
\* contribution the goal calculation asked for (total monthly return rate
\* non-zero), the final asset value is within 1% of the required future capital.
Claim_C6 ==
  ( /\ plan.status = "ok"
    /\ Len(data_asset) = years * 12 + 1
    /\ initial_invest_krw = 0
    /\ plan.monthly_savings_needed = FromInt(monthly_contrib_krw)
    /\ IsFin(plan.needed_asset_future)
    /\ ~REq(total_monthly_return_rate, Zero) )
  => RLe(RMul(FromInt(100),
              RAbs(RSub(FromInt(data_asset[Len(data_asset)]),
                        plan.needed_asset_future))),
         RAbs(plan.needed_asset_future))

\* C7: when growth drives a non-zero unit price to exactly zero, that month
\* ends the run in the reported error: nothing is recorded for it, no later
\* month is simulated, and no run continues with a non-finite share count.
Thm_C7 ==
  /\ [][(pc = "loop" /\ current_price # Zero /\ current_price' = Zero) =>
          /\ pc' = "error"
          /\ err' # "none"
          /\ data_asset' = data_asset
          /\ data_invested' = data_invested]_vars
  /\ [][pc = "error" => pc' = "error" /\ i' = i /\ data_asset' = data_asset]_vars
  /\ [](pc # "error" => IsFin(current_shares) /\ IsFin(current_price))

Wit_C7 ==
  /\ pc = "error"
  /\ i >= 1
  /\ price_krw # Zero
  /\ current_price = Zero
  /\ ~IsFin(current_shares)

\* C8: with a non-negative monthly contribution, a tax rate within 0..100 %
\* and zero growth, data_invested is non-decreasing.
Thm_C8 ==
  (monthly_contrib_krw >= 0 /\ tax_rate \in 0..100 /\ real_change_rate = 0) =>
     \A k \in 2..Len(data_invested) : data_invested[k] >= data_invested[k - 1]

Wit_C8 ==
  /\ pc = "done"
  /\ monthly_contrib_krw > 0
  /\ tax_rate \in 0..100
  /\ real_change_rate = 0
  /\ data_invested[Len(data_invested)] > data_invested[1]

\* C9: a step computes the gross dividend from the shares held before the
\* step, checks break-even against the invested total before the contribution
\* is added, grows the price, buys (net dividend + contribution) / post-growth
\* price shares, and adds only the contribution to total_invested.
Thm_C9 ==
  [][(pc = "loop" /\ i' = i + 1) =>
       \E gross \in {hist_gross'[i + 1]} :
       \E net \in {RMul(gross, RSub(One, RDiv(FromInt(tax_rate), FromInt(100))))} :
       \E bought \in {RDiv(RAdd(net, FromInt(monthly_contrib_krw)), current_price')} :
           /\ gross = IF is_weekly_mode \/ (i + 1) % FreqInterval(div_freq_option) = 0
                      THEN RMul(current_shares, div_per_payout_krw)
                      ELSE Zero
           /\ accumulated_div' = RAdd(accumulated_div, net)
           /\ (break_even_month' # break_even_month =>
                 RGe(accumulated_div', FromInt(total_invested)))
           /\ current_price' =
                RMul(current_price,
                     RAdd(One, RDiv(FromInt(real_change_rate), FromInt(100))))
           /\ current_shares' = RAdd(current_shares, bought)
           /\ total_invested' = total_invested + monthly_contrib_krw]_vars

Wit_C9 ==
  /\ pc = "loop"
  /\ i >= 2
  /\ real_change_rate = 100
  /\ tax_rate = 0
  /\ monthly_contrib_krw > 0
  /\ hist_gross[i] # Zero
  /\ current_shares.d > 1

\* C10: for every payout frequency, the number of simulated months in which a
\* payout is emitted times the per-payout amount equals years times the annual
\* dividend per share; for the non-weekly frequencies interval * count = 12.
Thm_C10 ==
  /\ (pc \in {"report", "done"} =>
        RMul(FromInt(payouts), div_per_payout_krw) = RMul(FromInt(years), annual_div_krw))
  /\ (~is_weekly_mode =>
        FreqInterval(div_freq_option) * FreqCount(div_freq_option) = 12)

Wit_C10 ==
  /\ pc = "done"
  /\ annual_div_krw # Zero
  /\ div_freq_option = "weekly"
  /\ payouts = years * 12

====
